---------------------------- MODULE Spec2Model ----------------------------
(***************************************************************************)
(* A model of FitsConverter.h: the float-space colorizer                   *)
(* (floatSpaceConvert and its colour ramps) and the driver                 *)
(* readFITSimagesAndColorize (the CFITSIO read loop, the parallel stripe   *)
(* tasks of writeColorizedImages and the FreeImage bracket).               *)
(*                                                                         *)
(* Numbers.  float and double values are modelled as exact extended        *)
(* rationals <<n, d>>: d > 0 is the finite value n/d in lowest terms,      *)
(* <<1,0>> and <<-1,0>> are +Inf and -Inf, <<0,0>> is NaN.  The rounding   *)
(* of IEEE-754 binary32/binary64 is not modelled.  A packed pixel          *)
(* (std::uint32_t) is the tuple of its four bytes in memory order,         *)
(* <<byte 0, byte 1, byte 2, byte 3>>; integers are stored little-endian.  *)
(***************************************************************************)
EXTENDS Integers, Sequences, FiniteSets, TLC

VARIABLES
    \* ---- one call of floatSpaceConvert ----
    data,        \* std::span<const float> data
    converted,   \* std::span<uint32_t> converted
    colorMode,   \* ColorizeMode colorMode
    vMin,        \* double vMin  (start fraction of the view window)
    vMax,        \* double vMax  (end fraction of the view window)
    stripeNum,   \* double stripeNum
    outcome,     \* "ready" before the call, then how the call ended
    percents,    \* the percent convertToGreyScale returned for each sample
    view,        \* the triple getViewWindow returned
    indet,       \* the byte this build yields for an undefined float->integer conversion
    \* ---- one run of readFITSimagesAndColorize ----
    hdus,        \* the FITS file: its header-data units, in order
    pc,          \* where the calling thread is in readFitsImages / writeColorizedImages
    what,        \* the message of the exception that ended the run
    cur,         \* CFITSIO's current HDU of fptr
    status,      \* int status
    naxis,       \* int naxis
    naxes,       \* long naxes[10], its first two entries
    npixels,     \* long npixels
    fpixel,      \* long fpixel
    image,       \* std::vector<float> image
    idx,         \* std::size_t idx
    tpc,         \* per stripe task: where it is in the for_each body
    tmode,       \* per stripe task: position in colorizeModes
    mem,         \* the converted vectors, by allocation
    files,       \* the .bmp files written, by name
    fiRefs,      \* FreeImage's initialisation count
    batch,       \* per call of writeColorizedImages: calls of Initialise, DeInitialise, Save
    lateSave,    \* some FreeImage_Save ran while FreeImage was not initialised
    writers,     \* per converted vector: the tasks that wrote it in this batch
    forkImage    \* image as it was when the stripe tasks were started

convVars == <<data, converted, colorMode, vMin, vMax, stripeNum, outcome, percents, view, indet>>

appVars == <<hdus, pc, what, cur, status, naxis, naxes, npixels, fpixel, image, idx,
             tpc, tmode, mem, files, fiRefs, batch, lateSave, writers, forkImage>>

vars == <<convVars, appVars>>

-----------------------------------------------------------------------------
(* Bounds of the model *)

\* longest sample buffer drawn for one floatSpaceConvert call
MaxLen == 3

\* samples are the quarters 0/4 .. MaxSample/4
MaxSample == 3

\* most header-data units in a FITS file
MaxHdus == 2

\* the stripe tasks started per image plane: the first NumStripes of stripes
NumStripes == 2

\* std::size_t idx is kept modulo IdxModulus
IdxModulus == 4

-----------------------------------------------------------------------------
(* double arithmetic *)

\* a double: a fraction n/d in lowest terms with d > 0, an infinity or NaN
Double == Int \X Int

Abs(k) == IF k < 0 THEN -k ELSE k

Sign(k) == IF k < 0 THEN -1 ELSE IF k > 0 THEN 1 ELSE 0

GCD[a \in Nat, b \in Nat] == IF b = 0 THEN a ELSE GCD[b, a % b]

\* lowest terms, positive denominator; k/0 is an infinity or NaN
Norm[x \in Double] ==
    IF x[2] = 0 THEN <<Sign(x[1]), 0>>
    ELSE LET g == GCD[Abs(x[1]), Abs(x[2])]
             s == Sign(x[2])
         IN  <<(s * x[1]) \div g, (s * x[2]) \div g>>

R[n \in Int, d \in Int] == Norm[<<n, d>>]

IsFinite(x) == x[2] # 0

IsNaN(x) == x = <<0, 0>>

RAdd[x \in Double, y \in Double] ==
    Norm[<<x[1] * y[2] + y[1] * x[2], x[2] * y[2]>>]

RSub[x \in Double, y \in Double] ==
    Norm[<<x[1] * y[2] - y[1] * x[2], x[2] * y[2]>>]

RMul[x \in Double, y \in Double] ==
    Norm[<<x[1] * y[1], x[2] * y[2]>>]

RDiv[x \in Double, y \in Double] ==
    Norm[<<x[1] * y[2], x[2] * y[1]>>]

\* x < y; false when either is NaN
RLess[x \in Double, y \in Double] ==
    ~IsNaN(x) /\ ~IsNaN(y) /\ x[1] * y[2] < y[1] * x[2]

RLeq[x \in Double, y \in Double] ==
    ~IsNaN(x) /\ ~IsNaN(y) /\ x[1] * y[2] <= y[1] * x[2]

\* mutant of Floor: rounds toward zero, as a cast to an integer would
TruncTowardZero(x) ==
    IF ~IsFinite(x) THEN x
    ELSE <<Sign(x[1]) * (Abs(x[1]) \div x[2]), 1>>

\* std::floor
Floor(x) == IF ~IsFinite(x) THEN x ELSE <<x[1] \div x[2], 1>>

\* std::round: halfway cases away from zero
Round(x) ==
    IF ~IsFinite(x) THEN x
    ELSE <<Sign(x[1]) * ((2 * Abs(x[1]) + x[2]) \div (2 * x[2])), 1>>

\* mutant of ToUInt: converts to the nearest integer instead of truncating
ToUIntNearest(x, bits) ==
    LET t == Round(x)
    IN  IF IsFinite(x) /\ t[1] >= 0 /\ (bits >= 31 \/ t[1] < 2 ^ bits)
        THEN t[1]
        ELSE indet

\* conversion of a double to an unsigned integer type of the given width:
\* truncation toward zero; undefined when the truncated value does not fit
ToUInt(x, bits) ==
    LET t == Sign(x[1]) * (Abs(x[1]) \div x[2])
    IN  IF IsFinite(x) /\ t >= 0 /\ (bits >= 31 \/ t < 2 ^ bits)
        THEN t
        ELSE indet

Zero == <<0, 1>>

One == <<1, 1>>


-----------------------------------------------------------------------------
(* ColorizeMode, rgb and the five colour ramps *)

ColorizeModes == {"NICKRGB", "SHORTNRGB", "ROYGBIV", "GREYSCALE", "BINARY"}

\* std::numeric_limits<std::uint8_t>::max()
ByteMax == 255

\* std::numeric_limits<std::uint32_t>::max() >> 8
NrgbMax == 16777215

\* std::numeric_limits<std::uint32_t>::max() >> 16
SnrgbMax == 65535

\* the four bytes of a std::uint32_t in memory
BytesOf(v) ==
    <<v % 256, (v \div 256) % 256, (v \div 65536) % 256, (v \div 16777216) % 256>>

rgb(r, g, b) == <<r, g, b, 0>>

nrgb[percent \in Double] == BytesOf(ToUInt(RMul[<<NrgbMax, 1>>, percent], 32))

snrgb[percent \in Double] == BytesOf(ToUInt(RMul[<<SnrgbMax, 1>>, percent], 32))

roygbiv[percent \in Double] ==
    LET a  == RDiv[RSub[One, percent], R[1, 5]]
        fa == Floor(a)
        X  == IF IsFinite(fa) THEN fa[1] ELSE indet
        Y  == Floor(RMul[<<ByteMax, 1>>, RSub[a, <<X, 1>>]])
        y  == ToUInt(Y, 8)
        ny == ToUInt(RSub[<<ByteMax, 1>>, Y], 8)
    IN  CASE X = 0 -> rgb(ByteMax, y, 0)
          [] X = 1 -> rgb(ny, ByteMax, 0)
          [] X = 2 -> rgb(0, ByteMax, y)
          [] X = 3 -> rgb(0, ny, ByteMax)
          [] X = 4 -> rgb(y, 0, ByteMax)
          [] X = 5 -> rgb(ByteMax, 0, ByteMax)
          [] OTHER -> rgb(0, 0, 0)

grayScale[percent \in Double] ==
    LET gray == ToUInt(RMul[<<ByteMax, 1>>, percent], 8)
    IN  rgb(gray, gray, gray)

binary[percent \in Double] ==
    LET bit  == ToUInt(Round(percent), 8)
        gray == (ByteMax * bit) % 256
    IN  rgb(gray, gray, gray)

\* the switch over colorMode in floatSpaceConvert
Colorize(mode, percent) ==
    CASE mode = "NICKRGB"   -> nrgb[percent]
      [] mode = "ROYGBIV"   -> roygbiv[percent]
      [] mode = "GREYSCALE" -> grayScale[percent]
      [] mode = "BINARY"    -> binary[percent]
      [] mode = "SHORTNRGB" -> snrgb[percent]

-----------------------------------------------------------------------------
(* floatSpaceConvert *)

\* std::minmax_element over a non-empty buffer
MinOf(buf) == CHOOSE m \in {buf[i] : i \in DOMAIN buf} :
                  \A i \in DOMAIN buf : RLeq[m, buf[i]]

MaxOf(buf) == CHOOSE m \in {buf[i] : i \in DOMAIN buf} :
                  \A i \in DOMAIN buf : RLeq[buf[i], m]

\* mutant of getViewWindow: the zero-distance guard is missing
getViewWindowUnguarded(buf, startPercent, endPercent) ==
    LET min      == MinOf(buf)
        max      == MaxOf(buf)
        distance == RSub[max, min]
        viewMin  == RAdd[min, RMul[distance, startPercent]]
        viewMax  == RAdd[min, RMul[distance, endPercent]]
    IN  [viewMin |-> viewMin, viewMax |-> viewMax,
         viewDistance |-> RSub[viewMax, viewMin]]

getViewWindow(buf, startPercent, endPercent) ==
    LET min      == MinOf(buf)
        max      == MaxOf(buf)
        distance == RSub[max, min]
        viewMin  == RAdd[min, RMul[distance, startPercent]]
        viewMax  == RAdd[min, RMul[distance, endPercent]]
        viewDistance == RSub[viewMax, viewMin]
    IN  [viewMin |-> viewMin, viewMax |-> viewMax,
         viewDistance |-> IF viewDistance = Zero THEN One ELSE viewDistance]

\* double stripeDistance = viewDistance / stripeNum
StripeDistance(w, n) == RDiv[w.viewDistance, n]

\* mutant of convertToGreyScale: the position in the whole window, not in the stripe
convertToGreyScaleWholeWindow(f, w, stripeDistance) ==
    LET f1 == RSub[f, w.viewMin]
    IN  IF RLess[f1, w.viewDistance]
        THEN RDiv[RSub[f1, RMul[w.viewDistance, Floor(RDiv[f1, w.viewDistance])]],
                  w.viewDistance]
        ELSE One

convertToGreyScale(f, w, stripeDistance) ==
    LET f1 == RSub[f, w.viewMin]
    IN  IF RLess[f1, w.viewDistance]
        THEN RDiv[RSub[f1, RMul[stripeDistance, Floor(RDiv[f1, stripeDistance])]],
                  stripeDistance]
        ELSE One

\* mutant of setOpaque: the alpha byte is left as the ramp produced it
setOpaqueSkipped(p) == p

setOpaque(p) == [p EXCEPT ![4] = ByteMax]

\* mutant of forEachPixel: a black colour is not stored, the slot keeps its pixel
forEachPixelSkipBlack(buf, out, mode, w, stripeDistance) ==
    [i \in DOMAIN out |->
        LET rgba == Colorize(mode, convertToGreyScale(buf[i], w, stripeDistance))
        IN  IF i <= Len(buf) /\ rgba # rgb(0, 0, 0)
            THEN setOpaque(rgba)
            ELSE out[i]]

\* std::transform(seq, data.begin(), data.end(), converted.begin(), ...)
forEachPixel(buf, out, mode, w, stripeDistance) ==
    [i \in DOMAIN out |->
        IF i <= Len(buf)
        THEN setOpaque(Colorize(mode, convertToGreyScale(buf[i], w, stripeDistance)))
        ELSE out[i]]

\* the pixel buffer a call on a non-empty sample buffer leaves behind
floatSpaceConvert(buf, out, mode, startPercent, endPercent, n) ==
    LET w == getViewWindow(buf, startPercent, endPercent)
    IN  forEachPixel(buf, out, mode, w, StripeDistance(w, n))

\* the percents of that call, sample by sample
PercentsOf(buf, startPercent, endPercent, n) ==
    LET w == getViewWindow(buf, startPercent, endPercent)
    IN  [i \in DOMAIN buf |-> convertToGreyScale(buf[i], w, StripeDistance(w, n))]

-----------------------------------------------------------------------------
(* One call of floatSpaceConvert on drawn inputs *)

SampleVals == {R[k, 4] : k \in 0..MaxSample}

Buffers == UNION {[1..n -> SampleVals] : n \in 0..MaxLen}

\* the buffer of the end-to-end scenario
ExampleBuffer == <<R[0, 1], R[1, 4], R[1, 2], R[3, 4], R[1, 1]>>

\* (vMin, vMax) pairs, each with 0 <= vMin <= vMax <= 1
Windows == {<<Zero, One>>, <<Zero, R[1, 2]>>, <<R[1, 4], One>>,
            <<R[1, 4], R[3, 4]>>, <<R[1, 2], R[1, 2]>>}

StripeNums == {R[-1, 1], Zero, One, R[3, 2], R[2, 1], R[10, 1]}

\* std::vector<uint32_t> converted(n): n value-initialised pixels
FreshBuffer(n) == [i \in 1..n |-> <<0, 0, 0, 0>>]

IndetBytes == {0, 128}

\* no run of readFITSimagesAndColorize
AppUnused ==
    /\ hdus = <<>> /\ pc = "unused" /\ what = "" /\ cur = 0 /\ status = "OK"
    /\ naxis = 0 /\ naxes = <<0, 0>> /\ npixels = 0 /\ fpixel = 0
    /\ image = <<>> /\ idx = 0 /\ tpc = <<>> /\ tmode = <<>> /\ mem = <<>>
    /\ files = <<>> /\ fiRefs = 0 /\ batch = <<>> /\ lateSave = FALSE
    /\ writers = <<>> /\ forkImage = <<>>

InitConvert ==
    /\ AppUnused
    /\ data \in Buffers \cup {ExampleBuffer}
    /\ converted = FreshBuffer(Len(data))
    /\ colorMode \in ColorizeModes
    /\ \E w \in Windows : vMin = w[1] /\ vMax = w[2]
    /\ stripeNum \in StripeNums
    /\ outcome = "ready"
    /\ percents = <<>>
    /\ view = <<>>
    /\ indet \in IndetBytes

\* floatSpaceConvert(data, converted, colorMode, vMin, vMax, stripeNum), data not empty:
\* there is no check of data or of stripeNum, every sample is converted
CallFloatSpaceConvert ==
    /\ outcome = "ready"
    /\ data # <<>>
    /\ converted' = floatSpaceConvert(data, converted, colorMode, vMin, vMax, stripeNum)
    /\ percents' = PercentsOf(data, vMin, vMax, stripeNum)
    /\ view' = getViewWindow(data, vMin, vMax)
    /\ outcome' = "returned"
    /\ UNCHANGED <<data, colorMode, vMin, vMax, stripeNum, indet>>
    /\ UNCHANGED appVars

\* the same call on an empty buffer: getViewWindow dereferences
\* std::minmax_element's end iterators (undefined: the read faults or yields
\* garbage), then std::transform runs over no sample
CallFloatSpaceConvertEmpty ==
    /\ outcome = "ready"
    /\ data = <<>>
    /\ outcome' \in {"returned", "crashed"}
    /\ UNCHANGED <<data, converted, colorMode, vMin, vMax, stripeNum, percents, view, indet>>
    /\ UNCHANGED appVars

NextConvert == CallFloatSpaceConvert \/ CallFloatSpaceConvertEmpty

SpecConvert == InitConvert /\ [][NextConvert]_vars

-----------------------------------------------------------------------------
(* Properties of one floatSpaceConvert call (checked under SpecConvert) *)

Returned == outcome = "returned" /\ data # <<>>

\* f - viewMin, the window-relative position of sample i
RelPos(i) == RSub[data[i], view.viewMin]

\* the samples are not all equal
NonConstant == \E i, j \in DOMAIN data : data[i] # data[j]

C3_InvalidInputRejected ==
    (outcome # "ready" /\ (data = <<>> \/ RLeq[stripeNum, Zero]))
        => (outcome = "InvalidInput" /\ converted = FreshBuffer(Len(data)))

\* C4: after the call every output pixel below the sample count has alpha
\* byte (byte 3) 255, for each colour mode, window and stripeNum >= 1.
C4_AlphaOpaque ==
    (Returned /\ RLeq[One, stripeNum])
        => \A i \in DOMAIN data : converted[i][4] = 255

\* a NICKRGB call that produced two different colours
C4_Witness ==
    /\ Returned /\ RLeq[One, stripeNum] /\ colorMode = "NICKRGB"
    /\ \E i, j \in DOMAIN data : converted[i] # converted[j]

\* C5: for a constant-valued buffer, any window and any stripeNum >= 1,
\* viewDistance is 1 and every pixel is the ramp's colour for percent 0 with
\* alpha 255.
C5_ConstantBuffer ==
    (Returned /\ ~NonConstant /\ RLeq[One, stripeNum])
        => /\ view.viewDistance = One
           /\ \A i \in DOMAIN data :
                 converted[i] = [Colorize(colorMode, Zero) EXCEPT ![4] = 255]

\* a constant buffer of several samples converted with ROYGBIV in ten stripes
C5_Witness ==
    /\ Returned /\ ~NonConstant /\ Len(data) > 1
    /\ stripeNum = R[10, 1] /\ colorMode = "ROYGBIV"
    /\ converted[1] = <<255, 0, 255, 255>>

\* floor(255 * (s - min) / (max - min))
GrayOf(s) ==
    Floor(RDiv[RMul[<<255, 1>>, RSub[s, MinOf(data)]],
               RSub[MaxOf(data), MinOf(data)]])[1]

-----------------------------------------------------------------------------
(* readFITSimagesAndColorize: the file, the stripe tasks, FreeImage *)

\* auto stripes = { 1,2,10,20,50,100 }
stripes == <<1, 2, 10, 20, 50, 100>>

\* auto colorizeModes = { GREYSCALE, ROYGBIV, NICKRGB, BINARY, SHORTNRGB }
colorizeModes == <<"GREYSCALE", "ROYGBIV", "NICKRGB", "BINARY", "SHORTNRGB">>

\* constexpr long buffsize = 1000
buffsize == 1000

\* the invocations of the for_each body, one per element of stripes
Tasks == 1..NumStripes

\* mutant of BufOf: one converted vector, declared outside the for_each
BufShared(t) == 1

\* the allocation behind task t's own `converted`
BufOf(t) == t

\* saveToBmpFile::bgra
bgra(rgba) == <<rgba[3], rgba[2], rgba[1], rgba[4]>>

\* mutant of AllTasksDone: for_each returns as soon as one invocation is done
SomeTaskDone == \E t \in Tasks : tpc[t] = "done"

\* std::for_each(std::execution::par, ...) returns when every invocation is done
AllTasksDone == \A t \in Tasks : tpc[t] = "done"

\* header-data units: an image with NAXIS = 0, a table, and image planes
HduKinds ==
    { [kind |-> "image", naxis |-> 0, naxes |-> <<0, 0>>, pix |-> <<>>],
      [kind |-> "table", naxis |-> 0, naxes |-> <<0, 0>>, pix |-> <<>>],
      [kind |-> "image", naxis |-> 2, naxes |-> <<0, 1>>, pix |-> <<>>],
      [kind |-> "image", naxis |-> 2, naxes |-> <<2, 1>>,
       pix |-> <<R[1, 4], R[1, 1]>>] }

FitsFiles == UNION {[1..n -> HduKinds] : n \in 1..MaxHdus}

\* what the uninitialised locals naxis and naxes[] may hold
UninitNaxis == {0, 2}

UninitNaxes == {<<0, 1>>, <<1, 1>>}

\* no call of floatSpaceConvert on drawn inputs
ConvUnused ==
    /\ data = <<>> /\ converted = <<>> /\ colorMode = "NICKRGB"
    /\ vMin = Zero /\ vMax = One /\ stripeNum = One
    /\ outcome = "unused" /\ percents = <<>> /\ view = <<>> /\ indet = 0

Init ==
    /\ ConvUnused
    /\ hdus \in FitsFiles
    /\ pc = "open" /\ what = "" /\ cur = 0 /\ status = "OK"
    /\ naxis \in UninitNaxis /\ naxes \in UninitNaxes
    /\ npixels = 0 /\ fpixel = 0 /\ image = <<>> /\ idx = 0
    /\ tpc = [t \in Tasks |-> "none"] /\ tmode = [t \in Tasks |-> 1]
    /\ mem = [b \in Tasks |-> <<>>]
    /\ files = <<>> /\ fiRefs = 0
    /\ batch = [init |-> 0, deinit |-> 0, saves |-> 0]
    /\ lateSave = FALSE
    /\ writers = [b \in Tasks |-> {}]
    /\ forkImage = <<>>

taskVars == <<tpc, tmode, mem, files, fiRefs, batch, lateSave, writers, forkImage>>

\* fits_open_file; on failure throw "failed to open fits"
OpenFile ==
    /\ pc = "open"
    /\ \E ok \in BOOLEAN :
          IF ok
          THEN /\ pc' = "param" /\ cur' = 1 /\ status' = "OK"
               /\ idx' = 0 /\ image' = <<>> /\ what' = what
          ELSE /\ pc' = "error" /\ what' = "failed to open fits" /\ status' = "ERR"
               /\ UNCHANGED <<cur, idx, image>>
    /\ UNCHANGED <<hdus, naxis, naxes, npixels, fpixel>>
    /\ UNCHANGED taskVars /\ UNCHANGED convVars

\* the head of the do loop: fits_get_img_param, whose status is not looked at,
\* then if (naxis != 0) { npixels = width * height; image.clear(); ...
\* CFITSIO: a call entered with status > 0 returns at once and changes nothing;
\* a table HDU gives NOT_IMAGE and leaves naxis and naxes as they were.
GetImgParam ==
    /\ pc = "param"
    /\ \E ok \in BOOLEAN :
          LET success == status = "OK" /\ hdus[cur].kind = "image" /\ ok
              nx == IF success THEN hdus[cur].naxis ELSE naxis
              ns == IF success /\ hdus[cur].naxis # 0 THEN hdus[cur].naxes ELSE naxes
          IN  /\ status' = IF status = "OK" /\ ~success THEN "ERR" ELSE status
              /\ naxis' = nx
              /\ naxes' = ns
              /\ IF nx # 0
                 THEN /\ npixels' = ns[1] * ns[2]
                      /\ image' = <<>>
                      /\ pc' = "read"
                 ELSE /\ pc' = "movrel"
                      /\ UNCHANGED <<npixels, image>>
    /\ fpixel' = 1
    /\ UNCHANGED <<hdus, what, cur, idx>>
    /\ UNCHANGED taskVars /\ UNCHANGED convVars

\* one pass of while (npixels > 0): fits_read_img of at most buffsize samples,
\* throw "fits read" when it returns non-zero
ReadImg ==
    /\ pc = "read"
    /\ npixels > 0
    /\ LET nbuffer == IF npixels > buffsize THEN buffsize ELSE npixels
       IN  \E ok \in BOOLEAN :
              IF status = "OK" /\ ok
              THEN /\ image' = image \o SubSeq(hdus[cur].pix, fpixel, fpixel + nbuffer - 1)
                   /\ npixels' = npixels - nbuffer
                   /\ fpixel' = fpixel + nbuffer
                   /\ UNCHANGED <<pc, what, status>>
              ELSE /\ status' = IF status = "OK" THEN "ERR" ELSE status
                   /\ pc' = "error" /\ what' = "fits read"
                   /\ UNCHANGED <<image, npixels, fpixel>>
    /\ UNCHANGED <<hdus, cur, naxis, naxes, idx>>
    /\ UNCHANGED taskVars /\ UNCHANGED convVars

\* FreeImage_Initialise
FreeImage_Initialise(refs) == refs + 1

\* FreeImage_DeInitialise
FreeImage_DeInitialise(refs) == refs - 1

\* writeColorizedImages up to the for_each: return on an empty image, else
\* FreeImage_Initialise() and start the stripe tasks
WriteColorizedImages ==
    /\ pc = "read"
    /\ npixels <= 0
    /\ IF Len(image) = 0
       THEN /\ pc' = "movrel"
            /\ UNCHANGED taskVars
       ELSE /\ pc' = "join"
            /\ fiRefs' = FreeImage_Initialise(fiRefs)
            /\ batch' = [init |-> 1, deinit |-> 0, saves |-> 0]
            /\ tpc' = [t \in Tasks |-> "start"]
            /\ tmode' = [t \in Tasks |-> 1]
            /\ mem' = [b \in Tasks |-> <<>>]
            /\ writers' = [b \in Tasks |-> {}]
            /\ forkImage' = image
            /\ UNCHANGED <<files, lateSave>>
    /\ UNCHANGED <<hdus, what, cur, status, naxis, naxes, npixels, fpixel, image, idx>>
    /\ UNCHANGED convVars

readerVars == <<hdus, pc, what, cur, status, naxis, naxes, npixels, fpixel, image, idx>>

\* std::vector<uint32_t> converted(image.size())
TaskStart(t) ==
    /\ pc = "join"
    /\ tpc[t] = "start"
    /\ mem' = [mem EXCEPT ![BufOf(t)] = FreshBuffer(Len(image))]
    /\ writers' = [writers EXCEPT ![BufOf(t)] = @ \cup {t}]
    /\ tpc' = [tpc EXCEPT ![t] = "convert"]
    /\ UNCHANGED <<tmode, files, fiRefs, batch, lateSave, forkImage>>
    /\ UNCHANGED readerVars /\ UNCHANGED convVars

\* floatSpaceConvert(image, converted, colorizeMode, 0.0f, 1.0f, stripeNum)
TaskConvert(t) ==
    /\ pc = "join"
    /\ tpc[t] = "convert"
    /\ mem' = [mem EXCEPT ![BufOf(t)] =
                  floatSpaceConvert(image, @, colorizeModes[tmode[t]],
                                    Zero, One, <<stripes[t], 1>>)]
    /\ writers' = [writers EXCEPT ![BufOf(t)] = @ \cup {t}]
    /\ tpc' = [tpc EXCEPT ![t] = "save"]
    /\ UNCHANGED <<tmode, files, fiRefs, batch, lateSave, forkImage>>
    /\ UNCHANGED readerVars /\ UNCHANGED convVars

\* saveToBmpFile(name, converted): the in-place bgra transform, then
\* FreeImage_ConvertFromRawBits, FreeImage_Save, FreeImage_Unload; then the
\* next colorizeMode
TaskSave(t) ==
    /\ pc = "join"
    /\ tpc[t] = "save"
    /\ LET swapped == [i \in DOMAIN mem[BufOf(t)] |-> bgra(mem[BufOf(t)][i])]
           name    == <<idx, colorizeModes[tmode[t]], stripes[t]>>
       IN  /\ mem' = [mem EXCEPT ![BufOf(t)] = swapped]
           /\ files' = [k \in DOMAIN files \cup {name} |->
                           IF k = name THEN swapped ELSE files[k]]
    /\ writers' = [writers EXCEPT ![BufOf(t)] = @ \cup {t}]
    /\ batch' = [batch EXCEPT !.saves = @ + 1]
    /\ lateSave' = (lateSave \/ fiRefs = 0)
    /\ IF tmode[t] < Len(colorizeModes)
       THEN /\ tmode' = [tmode EXCEPT ![t] = @ + 1]
            /\ tpc' = [tpc EXCEPT ![t] = "convert"]
       ELSE /\ tpc' = [tpc EXCEPT ![t] = "done"]
            /\ UNCHANGED tmode
    /\ UNCHANGED <<fiRefs, forkImage>>
    /\ UNCHANGED readerVars /\ UNCHANGED convVars

\* the for_each has returned: FreeImage_DeInitialise(), writeColorizedImages returns
DeInitialise ==
    /\ pc = "join"
    /\ AllTasksDone
    /\ fiRefs' = FreeImage_DeInitialise(fiRefs)
    /\ batch' = [batch EXCEPT !.deinit = @ + 1]
    /\ pc' = "movrel"
    /\ UNCHANGED <<tpc, tmode, mem, files, lateSave, writers, forkImage>>
    /\ UNCHANGED <<hdus, what, cur, status, naxis, naxes, npixels, fpixel, image, idx>>
    /\ UNCHANGED convVars

\* fits_movrel_hdu(fptr, 1, NULL, &status); ++idx; while (status != END_OF_FILE);
\* after the loop status = 0
MovRelHdu ==
    /\ pc = "movrel"
    /\ \E ok \in BOOLEAN :
          LET st == IF status # "OK" THEN status
                    ELSE IF cur >= Len(hdus) THEN "END_OF_FILE"
                    ELSE IF ok THEN "OK" ELSE "ERR"
          IN  /\ cur' = IF st = "OK" THEN cur + 1 ELSE cur
              /\ IF st # "END_OF_FILE"
                 THEN pc' = "param" /\ status' = st
                 ELSE pc' = "close" /\ status' = "OK"
    /\ idx' = (idx + 1) % IdxModulus
    /\ UNCHANGED <<hdus, what, naxis, naxes, npixels, fpixel, image>>
    /\ UNCHANGED taskVars /\ UNCHANGED convVars

\* fits_close_file; on failure throw "fits close"
CloseFile ==
    /\ pc = "close"
    /\ \E ok \in BOOLEAN :
          IF ok
          THEN pc' = "done" /\ UNCHANGED <<what, status>>
          ELSE pc' = "error" /\ what' = "fits close" /\ status' = "ERR"
    /\ UNCHANGED <<hdus, cur, naxis, naxes, npixels, fpixel, image, idx>>
    /\ UNCHANGED taskVars /\ UNCHANGED convVars

Next ==
    \/ OpenFile
    \/ GetImgParam
    \/ ReadImg
    \/ WriteColorizedImages
    \/ \E t \in Tasks : TaskStart(t)
    \/ \E t \in Tasks : TaskConvert(t)
    \/ \E t \in Tasks : TaskSave(t)
    \/ DeInitialise
    \/ MovRelHdu
    \/ CloseFile

Spec == Init /\ [][Next]_vars

\* the thread that runs readFITSimagesAndColorize
Reader ==
    \/ OpenFile \/ GetImgParam \/ ReadImg \/ WriteColorizedImages
    \/ DeInitialise \/ MovRelHdu \/ CloseFile

\* the execution of one element of stripes under std::execution::par
Task(t) == TaskStart(t) \/ TaskConvert(t) \/ TaskSave(t)

\* every thread that can take a step eventually takes one
FairSpec ==
    /\ Spec
    /\ WF_vars(Reader)
    /\ \A t \in Tasks : WF_vars(Task(t))

-----------------------------------------------------------------------------
(* Properties of readFITSimagesAndColorize (checked under Spec and FairSpec) *)

\* C7: in every interleaving of the stripe tasks of one image plane no two
\* tasks write the same buffer and no task writes the sample buffer: each
\* converted vector has one writer, and image holds the same values while and
\* after the tasks run as when they were started.
C7_TasksShareNothingWritten ==
    /\ \A b \in DOMAIN writers : Cardinality(writers[b]) <= 1
    /\ \A t \in DOMAIN writers : \A u \in writers[t] : u = t
    /\ pc = "join" => image = forkImage

\* all tasks are in flight at different colour modes, each having written its own vector
C7_Witness ==
    /\ pc = "join"
    /\ \A t \in Tasks : tpc[t] = "save" /\ writers[t] = {t}
    /\ \E t, u \in Tasks : tmode[t] # tmode[u]
    /\ \E t, u \in Tasks : mem[t] # mem[u]

\* the pixels of image converted into a fresh buffer, then R and B swapped
SwappedFresh(mode, stripe) ==
    LET fresh == floatSpaceConvert(image, [i \in DOMAIN image |-> <<0, 0, 0, 0>>],
                                   mode, Zero, One, <<stripe, 1>>)
    IN  [i \in DOMAIN image |-> <<fresh[i][3], fresh[i][2], fresh[i][1], fresh[i][4]>>]

\* C8: although a task reuses one buffer for the five modes and swaps R and B
\* in place before each save, the pixels handed to the encoder for a
\* (stripeNum, mode) pair are the swap of the colorization of the plane's
\* samples into a fresh buffer, whatever ran before on the buffer.
C8_SavedBufferIsFresh ==
    pc = "join" =>
        \A k \in DOMAIN files :
            k[1] = idx => files[k] = SwappedFresh(k[2], k[3])

\* the last mode of a task has been saved from a buffer five modes old, and
\* the saved pixels are not all the same
C8_Witness ==
    /\ pc = "join"
    /\ \E k \in DOMAIN files :
          /\ k[1] = idx /\ k[2] = "SHORTNRGB"
          /\ \E i, j \in DOMAIN files[k] : files[k][i] # files[k][j]

\* C9: every FreeImage_Save runs between a FreeImage_Initialise and the
\* matching FreeImage_DeInitialise; DeInitialise runs only after all stripe
\* tasks of the batch have done all their saves; each is called once per batch.
C9_EncoderBracket ==
    /\ ~lateSave
    /\ fiRefs = (IF pc = "join" THEN 1 ELSE 0)
    /\ pc = "join" => (batch.init = 1 /\ batch.deinit = 0)
    /\ (pc # "join" /\ batch.init > 0) =>
          /\ batch.init = 1 /\ batch.deinit = 1
          /\ \A t \in Tasks : tpc[t] = "done"
          /\ batch.saves = NumStripes * Len(colorizeModes)

\* the batch of a second image plane has been torn down
C9_Witness ==
    /\ pc = "movrel" /\ batch.deinit = 1 /\ idx = 1
    /\ \E k \in DOMAIN files : k[1] = 0
    /\ \E k \in DOMAIN files : k[1] = 1

\* C10: readFITSimagesAndColorize terminates for every behaviour of the image
\* source: it returns after the last plane or ends with a propagated error.
C10_Terminates == <>(pc \in {"done", "error"})

=============================================================================
